---------------------------- MODULE Spec2Model ----------------------------
(***************************************************************************)
(* Model of the Malta Student Accommodation API (src/main.py).             *)
(*                                                                         *)
(* State: the three MongoDB collections the program touches (season, room, *)
(* booking) and the last call with its outcome (resp).                     *)
(*                                                                         *)
(* Representation of values:                                               *)
(*   - a datetime.date is a record [year, month, day];                     *)
(*   - a "YYYY-MM-DD" request string is the record of its three numeric    *)
(*     fields, which need not name a day of the calendar;                  *)
(*   - money is exact decimal fixed point: a season rate is a whole number *)
(*     of mills (1/1000 EUR), a room multiplier a whole number of tenths,  *)
(*     so rate * multiplier is a whole number of 1/10000 EUR; a rounded    *)
(*     price is a whole number of cents.  Binary floating-point            *)
(*     representation error is not modelled;                               *)
(*   - a raised exception is a result record tagged with its class.        *)
(* The model covers a configured database (db is not None).  The routes /   *)
(* and /test read no collection and are left out.                          *)
(***************************************************************************)
EXTENDS Integers, Sequences, FiniteSets

VARIABLES season, room, booking, resp

vars == <<season, room, booking, resp>>

---------------------------------------------------------------------------
(* Bounds *)

\* longest stay, in nights, the pricing calls are applied to
MaxNights == 3
\* longest season list the pricing calls are applied to
MaxSeasons == 2
\* most bookings the booking collection is followed to
MaxBookings == 2

Years == {2023, 2024}

---------------------------------------------------------------------------
(* datetime.date *)

IsLeap(y) == (y % 4 = 0 /\ y % 100 # 0) \/ y % 400 = 0

DaysInMonth(y, m) ==
    IF m = 2 THEN (IF IsLeap(y) THEN 29 ELSE 28)
    ELSE IF m \in {4, 6, 9, 11} THEN 30 ELSE 31

\* date(y, m, d) raises ValueError unless this holds
ValidDate(y, m, d) == m \in 1..12 /\ d >= 1 /\ d <= DaysInMonth(y, m)

date(y, m, d) == [year |-> y, month |-> m, day |-> d]

\* a < b on dates
DateLT(a, b) ==
    \/ a.year < b.year
    \/ a.year = b.year /\ a.month < b.month
    \/ a.year = b.year /\ a.month = b.month /\ a.day < b.day

DateLE(a, b) == a = b \/ DateLT(a, b)

\* d + timedelta(days=1)
NextDay(d) ==
    IF d.day < DaysInMonth(d.year, d.month) THEN date(d.year, d.month, d.day + 1)
    ELSE IF d.month < 12 THEN date(d.year, d.month + 1, 1)
    ELSE date(d.year + 1, 1, 1)

Min(S) == CHOOSE x \in S : \A y \in S : x <= y

\* dict.get(key, default)
Get(doc, key, default) == IF key \in DOMAIN doc THEN doc[key] ELSE default

\* round(x, 2) of x = n/q cents: to the nearest cent, an exact half to the even cent
RoundHalfEven(n, q) ==
    LET f == n \div q
        r == n % q
    IN  IF 2 * r < q THEN f
        ELSE IF 2 * r > q THEN f + 1
        ELSE IF f % 2 = 0 THEN f ELSE f + 1

---------------------------------------------------------------------------
(* Helpers of main.py *)

\* parse_date: strptime(s, "%Y-%m-%d").date(); ValueError when s names no day
parse_date(s) ==
    IF ValidDate(s.y, s.m, s.d)
    THEN [tag |-> "ok", date |-> date(s.y, s.m, s.d)]
    ELSE [tag |-> "ValueError"]

daterange_inclusive(start, end) ==
    LET RECURSIVE gen(_)
        gen(cur) == IF DateLE(cur, end) THEN <<cur>> \o gen(NextDay(cur)) ELSE <<>>
    IN  gen(start)

\* the days the generator yields, in order
daterange(start, end) ==
    LET RECURSIVE gen(_)
        gen(cur) == IF DateLT(cur, end) THEN <<cur>> \o gen(NextDay(cur)) ELSE <<>>
    IN  gen(start)

\* get_documents(name): the documents of a collection, in stored order
get_documents(collection_name) ==
    IF collection_name = "season" THEN season
    ELSE IF collection_name = "room" THEN room
    ELSE booking

get_active_seasons == get_documents("season")

season_test_wrap_on_equal(d, s) ==
    LET sm == s.start_month
        sd == s.start_day
        em == s.end_month
        ed == s.end_day
    IN  IF ~ValidDate(d.year, sm, sd) \/ ~ValidDate(d.year, em, ed) THEN "ValueError"
        ELSE LET start_this_year == date(d.year, sm, sd)
                 end_this_year == date(d.year, em, ed)
             IN  IF DateLE(end_this_year, start_this_year)
                 THEN (IF DateLE(start_this_year, d) \/ DateLE(d, end_this_year)
                       THEN "match" ELSE "next")
                 ELSE (IF DateLE(start_this_year, d) /\ DateLE(d, end_this_year)
                       THEN "match" ELSE "next")

\* one iteration of the loop of season_for_day: "match" (return s), "next"
\* (go on to the next season) or "ValueError" (date() raised)
season_test(d, s) ==
    LET sm == s.start_month
        sd == s.start_day
        em == s.end_month
        ed == s.end_day
    IN  IF ~ValidDate(d.year, sm, sd) \/ ~ValidDate(d.year, em, ed) THEN "ValueError"
        ELSE LET start_this_year == date(d.year, sm, sd)
                 end_this_year == date(d.year, em, ed)
             IN  IF DateLT(end_this_year, start_this_year)
                 THEN (IF DateLE(start_this_year, d) \/ DateLE(d, date(d.year, em, ed))
                       THEN "match" ELSE "next")
                 ELSE (IF DateLE(start_this_year, d) /\ DateLE(d, end_this_year)
                       THEN "match" ELSE "next")

season_for_day_last_match(d, seasons) ==
    LET RECURSIVE scan(_, _)
        scan(i, found) ==
            IF i > Len(seasons) THEN found
            ELSE LET t == season_test(d, seasons[i])
                 IN  IF t = "ValueError" THEN [tag |-> "ValueError"]
                     ELSE IF t = "match" THEN scan(i + 1, [tag |-> "season", s |-> seasons[i]])
                     ELSE scan(i + 1, found)
    IN  scan(1, [tag |-> "None"])

season_for_day(d, seasons) ==
    LET RECURSIVE scan(_)
        scan(i) ==
            IF i > Len(seasons) THEN [tag |-> "None"]
            ELSE LET t == season_test(d, seasons[i])
                 IN  IF t = "ValueError" THEN [tag |-> "ValueError"]
                     ELSE IF t = "match" THEN [tag |-> "season", s |-> seasons[i]]
                     ELSE scan(i + 1)
    IN  scan(1)


compute_price_round_each_night(room_doc, check_in, check_out) ==
    LET seasons == get_active_seasons
        days == daterange(check_in, check_out)
        RECURSIVE loop(_, _, _)
        loop(i, total, bases) ==
            IF i > Len(days) THEN [tag |-> "ok", total |-> total, bases |-> bases]
            ELSE LET s == season_for_day(days[i], seasons)
                 IN  IF s.tag = "ValueError" THEN [tag |-> "ValueError"]
                     ELSE LET base == IF s.tag = "season" THEN Get(s.s, "rate", 0) ELSE 0
                          IN  loop(i + 1,
                                   total + 100 * RoundHalfEven(base * Get(room_doc, "multiplier", 10), 100),
                                   Append(bases, base))
        r == loop(1, 0, <<>>)
    IN  IF r.tag = "ValueError" THEN [tag |-> "ValueError"]
        ELSE [tag |-> "ok", value |-> RoundHalfEven(r.total, 100), bases |-> r.bases]

compute_price_last_night_only(room_doc, check_in, check_out) ==
    LET seasons == get_active_seasons
        days == daterange(check_in, check_out)
        RECURSIVE loop(_, _, _)
        loop(i, total, bases) ==
            IF i > Len(days) THEN [tag |-> "ok", total |-> total, bases |-> bases]
            ELSE LET s == season_for_day(days[i], seasons)
                 IN  IF s.tag = "ValueError" THEN [tag |-> "ValueError"]
                     ELSE LET base == IF s.tag = "season" THEN Get(s.s, "rate", 0) ELSE 0
                          IN  loop(i + 1,
                                   base * Get(room_doc, "multiplier", 10),
                                   Append(bases, base))
        r == loop(1, 0, <<>>)
    IN  IF r.tag = "ValueError" THEN [tag |-> "ValueError"]
        ELSE [tag |-> "ok", value |-> RoundHalfEven(r.total, 100), bases |-> r.bases]

\* compute_price: value is the returned price in cents; bases is the trace of the
\* loop, the base rate (in mills) of each day priced, in order
compute_price(room_doc, check_in, check_out) ==
    LET seasons == get_active_seasons
        days == daterange(check_in, check_out)
        RECURSIVE loop(_, _, _)
        loop(i, total, bases) ==
            IF i > Len(days) THEN [tag |-> "ok", total |-> total, bases |-> bases]
            ELSE LET s == season_for_day(days[i], seasons)
                 IN  IF s.tag = "ValueError" THEN [tag |-> "ValueError"]
                     ELSE LET base == IF s.tag = "season" THEN Get(s.s, "rate", 0) ELSE 0
                          IN  loop(i + 1,
                                   total + base * Get(room_doc, "multiplier", 10),
                                   Append(bases, base))
        r == loop(1, 0, <<>>)
    IN  IF r.tag = "ValueError" THEN [tag |-> "ValueError"]
        ELSE [tag |-> "ok", value |-> RoundHalfEven(r.total, 100), bases |-> r.bases]

---------------------------------------------------------------------------
(* Seed data *)

AcademicYear == [name |-> "Academic Year", start_month |-> 10, start_day |-> 1,
                 end_month |-> 6, end_day |-> 30, rate |-> 45000]
Summer == [name |-> "Summer", start_month |-> 7, start_day |-> 1,
           end_month |-> 9, end_day |-> 30, rate |-> 35000]
Holiday == [name |-> "Holiday", start_month |-> 12, start_day |-> 20,
            end_month |-> 12, end_day |-> 31, rate |-> 50000]

SeedSeasons == <<AcademicYear, Summer, Holiday>>

PrivateRoom == [name |-> "Private Room", capacity |-> 2, multiplier |-> 10]
EntireApartment == [name |-> "Entire Apartment", capacity |-> 4, multiplier |-> 14]

SeedRooms == <<PrivateRoom, EntireApartment>>

\* insert_many: the store gives each inserted document the next _id
insert_many(coll, docs) ==
    coll \o [i \in 1..Len(docs) |-> [k \in DOMAIN docs[i] \cup {"_id"} |->
                 IF k = "_id" THEN Len(coll) + i ELSE docs[i][k]]]

---------------------------------------------------------------------------
(* The service: startup and the routes *)

\* request strings: two days of the calendar and one that is none
ReqDates == {[y |-> 2024, m |-> 2, d |-> 28], [y |-> 2024, m |-> 3, d |-> 1],
             [y |-> 2024, m |-> 2, d |-> 30]}

\* QuoteRequest / BookingRequest payloads; room_id is the decimal string of an _id
Payloads == [room_id : 1..3, check_in : ReqDates, check_out : ReqDates,
             guests : {0, 1, 3}, name : {"Ana"}, email : {"ana@um.edu.mt"}]

\* documents found in the database before startup
PreSeasons == insert_many(<<>>, <<[name |-> "April", start_month |-> 4, start_day |-> 1,
                                   end_month |-> 4, end_day |-> 31, rate |-> 40000]>>)
PreRooms == insert_many(<<>>, <<[name |-> "Studio"]>>)

Init ==
    /\ season \in {<<>>, PreSeasons}
    /\ room \in {<<>>, PreRooms}
    /\ booking = <<>>
    /\ resp = [op |-> "init"]

\* startup runs once, before any request is served
seed_defaults ==
    /\ resp.op = "init"
    /\ season' = IF Len(season) = 0 THEN insert_many(season, SeedSeasons) ELSE season
    /\ room' = IF Len(room) = 0 THEN insert_many(room, SeedRooms) ELSE room
    /\ resp' = [op |-> "startup"]
    /\ UNCHANGED booking

Serving == resp.op # "init"

list_rooms ==
    /\ Serving
    /\ resp' = [op |-> "rooms", status |-> 200, body |-> get_documents("room")]
    /\ UNCHANGED <<season, room, booking>>

list_seasons ==
    /\ Serving
    /\ resp' = [op |-> "seasons", status |-> 200, body |-> get_documents("season")]
    /\ UNCHANGED <<season, room, booking>>

\* next((r for r in rooms if str(r.get("_id")) == room_id), None), as a set with
\* at most one element
find_room(room_id) ==
    IF \E i \in 1..Len(room) : room[i]._id = room_id
    THEN {room[Min({i \in 1..Len(room) : room[i]._id = room_id})]}
    ELSE {}

\* the body of get_quote up to the computed price: status is the HTTP status
\* (500 for an exception that is not an HTTPException), priced tells whether
\* compute_price was called
quote_result(payload) ==
    LET found == find_room(payload.room_id)
        ci == parse_date(payload.check_in)
        co == parse_date(payload.check_out)
    IN  IF found = {}
        THEN [status |-> 404, detail |-> "Room not found", priced |-> FALSE]
        ELSE LET r == CHOOSE x \in found : TRUE
             IN  IF ci.tag = "ValueError" \/ co.tag = "ValueError"
                 THEN [status |-> 500, detail |-> "ValueError", priced |-> FALSE]
                 ELSE IF ~DateLT(ci.date, co.date)
                 THEN [status |-> 400, detail |-> "check_out must be after check_in",
                       priced |-> FALSE]
                 ELSE IF payload.guests < 1 \/ payload.guests > Get(r, "capacity", 1)
                 THEN [status |-> 400, detail |-> "Invalid number of guests for this room",
                       priced |-> FALSE]
                 ELSE LET price == compute_price(r, ci.date, co.date)
                      IN  IF price.tag = "ValueError"
                          THEN [status |-> 500, detail |-> "ValueError", priced |-> TRUE]
                          ELSE [status |-> 200, total_price |-> price.value,
                                currency |-> "EUR", priced |-> TRUE]

get_quote ==
    /\ Serving
    /\ \E payload \in Payloads :
           resp' = [op |-> "quote", payload |-> payload, out |-> quote_result(payload)]
    /\ UNCHANGED <<season, room, booking>>

book_result_accepts_equal_dates(payload) ==
    LET found == find_room(payload.room_id)
        ci == parse_date(payload.check_in)
        co == parse_date(payload.check_out)
    IN  IF found = {}
        THEN [status |-> 404, detail |-> "Room not found", priced |-> FALSE]
        ELSE LET r == CHOOSE x \in found : TRUE
             IN  IF ci.tag = "ValueError" \/ co.tag = "ValueError"
                 THEN [status |-> 500, detail |-> "ValueError", priced |-> FALSE]
                 ELSE IF DateLT(co.date, ci.date)
                 THEN [status |-> 400, detail |-> "check_out must be after check_in",
                       priced |-> FALSE]
                 ELSE IF payload.guests < 1 \/ payload.guests > Get(r, "capacity", 1)
                 THEN [status |-> 400, detail |-> "Invalid number of guests for this room",
                       priced |-> FALSE]
                 ELSE LET price == compute_price(r, ci.date, co.date)
                      IN  IF price.tag = "ValueError"
                          THEN [status |-> 500, detail |-> "ValueError", priced |-> TRUE]
                          ELSE [status |-> 200, total_price |-> price.value,
                                currency |-> "EUR", status_text |-> "confirmed",
                                priced |-> TRUE]

\* the body of create_booking up to the computed total
book_result(payload) ==
    LET found == find_room(payload.room_id)
        ci == parse_date(payload.check_in)
        co == parse_date(payload.check_out)
    IN  IF found = {}
        THEN [status |-> 404, detail |-> "Room not found", priced |-> FALSE]
        ELSE LET r == CHOOSE x \in found : TRUE
             IN  IF ci.tag = "ValueError" \/ co.tag = "ValueError"
                 THEN [status |-> 500, detail |-> "ValueError", priced |-> FALSE]
                 ELSE IF ~DateLT(ci.date, co.date)
                 THEN [status |-> 400, detail |-> "check_out must be after check_in",
                       priced |-> FALSE]
                 ELSE IF payload.guests < 1 \/ payload.guests > Get(r, "capacity", 1)
                 THEN [status |-> 400, detail |-> "Invalid number of guests for this room",
                       priced |-> FALSE]
                 ELSE LET price == compute_price(r, ci.date, co.date)
                      IN  IF price.tag = "ValueError"
                          THEN [status |-> 500, detail |-> "ValueError", priced |-> TRUE]
                          ELSE [status |-> 200, total_price |-> price.value,
                                currency |-> "EUR", status_text |-> "confirmed",
                                priced |-> TRUE]

\* booking_doc; utcnow() is the position in insertion order
booking_doc(payload, total) ==
    [room_id |-> payload.room_id, check_in |-> payload.check_in,
     check_out |-> payload.check_out, guests |-> payload.guests,
     total_price |-> total, currency |-> "EUR", status |-> "confirmed",
     student |-> [name |-> payload.name, email |-> payload.email,
                  university |-> "None", phone |-> "None"],
     created_at |-> Len(booking) + 1, updated_at |-> Len(booking) + 1]

create_booking_replaces_collection ==
    /\ Serving
    /\ \E payload \in Payloads :
           LET out == book_result(payload)
           IN  /\ resp' = [op |-> "book", payload |-> payload, out |-> out]
               /\ IF out.status = 200
                  THEN booking' = insert_many(<<>>, <<booking_doc(payload, out.total_price)>>)
                  ELSE booking' = booking
    /\ UNCHANGED <<season, room>>

create_booking ==
    /\ Serving
    /\ \E payload \in Payloads :
           LET out == book_result(payload)
           IN  /\ resp' = [op |-> "book", payload |-> payload, out |-> out]
               /\ IF out.status = 200
                  THEN /\ Len(booking) < MaxBookings
                       /\ booking' = insert_many(booking, <<booking_doc(payload, out.total_price)>>)
                  ELSE booking' = booking
    /\ UNCHANGED <<season, room>>

\* find({}).sort("created_at", -1).limit(limit), without created_at
list_bookings ==
    /\ Serving
    /\ \E limit \in {1, 50} :
           LET n == IF Len(booking) < limit THEN Len(booking) ELSE limit
               items == [k \in 1..n |-> booking[Len(booking) + 1 - k]]
           IN  resp' = [op |-> "bookings", status |-> 200, limit |-> limit,
                        body |-> [k \in 1..n |->
                                     [f \in DOMAIN items[k] \ {"created_at", "updated_at"} |-> items[k][f]]]]
    /\ UNCHANGED <<season, room, booking>>

Next ==
    \/ seed_defaults
    \/ list_rooms
    \/ list_seasons
    \/ get_quote
    \/ create_booking
    \/ list_bookings

Spec == Init /\ [][Next]_vars

---------------------------------------------------------------------------
(* The pricing engine applied to bounded inputs *)

CalendarDays ==
    {dt \in [year : Years, month : 1..12, day : 1..31] : ValidDate(dt.year, dt.month, dt.day)}

\* first nights of the stays priced: around the turn of each month and mid-month
StayStarts == {dt \in CalendarDays : dt.day \in {1, 15, 20} \/ dt.day >= 28}

WinterBreak == [name |-> "Winter Break", start_month |-> 12, start_day |-> 20,
                end_month |-> 1, end_day |-> 5, rate |-> 10]
OpenDay == [name |-> "Open Day", start_month |-> 3, start_day |-> 15,
            end_month |-> 3, end_day |-> 15, rate |-> 4]
February == [name |-> "February", start_month |-> 2, start_day |-> 1,
             end_month |-> 2, end_day |-> 29, rate |-> 35000]

SampleSeasons == {AcademicYear, WinterBreak, OpenDay, February}

SeqsUpTo(S, n) == UNION {[1..k -> S] : k \in 0..n}

SeasonLists == {SeedSeasons} \cup SeqsUpTo(SampleSeasons, MaxSeasons)

EngineRooms ==
    insert_many(<<>>, <<[name |-> "Bed", capacity |-> 1],
                        EntireApartment,
                        [name |-> "Shared Room", capacity |-> 3, multiplier |-> 5]>>)

RECURSIVE AddDays(_, _)
AddDays(d, n) == IF n = 0 THEN d ELSE AddDays(NextDay(d), n - 1)

EngineInit ==
    /\ season \in {insert_many(<<>>, l) : l \in SeasonLists}
    /\ room = EngineRooms
    /\ booking = <<>>
    /\ resp = [op |-> "init"]

\* each engine call is applied once to the inputs drawn: the functions keep no state
CallSeasonForDay ==
    /\ resp.op = "init"
    /\ \E d \in CalendarDays :
           resp' = [op |-> "season_for_day", d |-> d, out |-> season_for_day(d, season)]
    /\ UNCHANGED <<season, room, booking>>

CallComputePrice ==
    /\ resp.op = "init"
    /\ \E i \in 1..Len(room), ci \in StayStarts, n \in 1..MaxNights :
           LET co == AddDays(ci, n)
           IN  resp' = [op |-> "compute_price", room |-> room[i], check_in |-> ci,
                        check_out |-> co, out |-> compute_price(room[i], ci, co)]
    /\ UNCHANGED <<season, room, booking>>

EngineNext == CallSeasonForDay \/ CallComputePrice

SpecEngine == EngineInit /\ [][EngineNext]_vars


---------------------------------------------------------------------------
(* Vocabulary of the properties *)

\* (m1, d1) is earlier in the calendar year than (m2, d2)
Earlier(m1, d1, m2, d2) == m1 < m2 \/ (m1 = m2 /\ d1 < d2)
NotLater(m1, d1, m2, d2) == ~Earlier(m2, d2, m1, d1)

\* both boundaries of s are days of the year of d
HasBoundaries(d, s) ==
    /\ s.start_day <= DaysInMonth(d.year, s.start_month)
    /\ s.end_day <= DaysInMonth(d.year, s.end_month)

AfterStart(d, s) == NotLater(s.start_month, s.start_day, d.month, d.day)
BeforeEnd(d, s) == NotLater(d.month, d.day, s.end_month, s.end_day)

\* containment with a season wrapping when its end is before or equal to its start
ContainsWrapOnEqual(d, s) ==
    IF NotLater(s.end_month, s.end_day, s.start_month, s.start_day)
    THEN AfterStart(d, s) \/ BeforeEnd(d, s)
    ELSE AfterStart(d, s) /\ BeforeEnd(d, s)

\* containment with a season wrapping only when its end is strictly before its start
Contains(d, s) ==
    IF Earlier(s.end_month, s.end_day, s.start_month, s.start_day)
    THEN AfterStart(d, s) \/ BeforeEnd(d, s)
    ELSE AfterStart(d, s) /\ BeforeEnd(d, s)

\* day number of a date, counted from 2000-01-01
Ordinal(d) ==
    365 * (d.year - 2000) + Cardinality({y \in 2000..(d.year - 1) : IsLeap(y)})
    + <<0, 31, 59, 90, 120, 151, 181, 212, 243, 273, 304, 334>>[d.month]
    + (IF d.month > 2 /\ IsLeap(d.year) THEN 1 ELSE 0)
    + d.day

Abs(x) == IF x < 0 THEN -x ELSE x

RECURSIVE SumSeq(_)
SumSeq(q) == IF q = <<>> THEN 0 ELSE Head(q) + SumSeq(Tail(q))

\* the seasons of the catalog, by position, that contain d
Covering(d) == {i \in 1..Len(season) : HasBoundaries(d, season[i]) /\ Contains(d, season[i])}

IsSeasonCall == resp.op = "season_for_day"
IsPriceCall == resp.op = "compute_price"
Returned == resp.out.tag # "ValueError"
Nights == Ordinal(resp.check_out) - Ordinal(resp.check_in)
Night(k) == AddDays(resp.check_in, k - 1)
Multiplier == Get(resp.room, "multiplier", 10)

---------------------------------------------------------------------------
(* C1: season containment *)

\* C1 as stated: a season matches day d by the wrapping rule (d >= start or
\* d <= end) whenever its end boundary is before OR EQUAL TO its start boundary in
\* d's year, and by start <= d <= end otherwise.
C1_WrapWhenEndNotAfterStart ==
    IsSeasonCall =>
        \A i \in 1..Len(season) :
            HasBoundaries(resp.d, season[i]) =>
                ((season_for_day(resp.d, <<season[i]>>).tag = "season")
                    <=> ContainsWrapOnEqual(resp.d, season[i]))

\* C1 amended: a season whose boundaries are days of d's year matches d by the
\* wrapping rule only when its end boundary is STRICTLY before its start boundary,
\* and by start <= d <= end otherwise (so a season with equal start and end
\* matches that one day only); season_for_day returns a season that contains d,
\* and None only if no season contains d.
C1_WrapWhenEndBeforeStart ==
    IsSeasonCall =>
        /\ \A i \in 1..Len(season) :
               HasBoundaries(resp.d, season[i]) =>
                   ((season_for_day(resp.d, <<season[i]>>).tag = "season")
                       <=> Contains(resp.d, season[i]))
        /\ resp.out.tag = "season" => Contains(resp.d, resp.out.s)
        /\ resp.out.tag = "None" => Covering(resp.d) = {}

\* a day in January that a one-day season (start = end), first in the list, did
\* not match and that the wrapping season after it matched
C1_Witness ==
    /\ IsSeasonCall
    /\ resp.d.month = 1
    /\ resp.out.tag = "season"
    /\ Earlier(resp.out.s.end_month, resp.out.s.end_day,
               resp.out.s.start_month, resp.out.s.start_day)
    /\ \E i, j \in 1..Len(season) :
           /\ i < j
           /\ season[j] = resp.out.s
           /\ season[i].start_month = season[i].end_month
           /\ season[i].start_day = season[i].end_day
           /\ season_for_day(resp.d, <<season[i]>>).tag = "None"

---------------------------------------------------------------------------
(* C2: totality *)

\* C2: compute_price returns a price for every pair of ordered dates, every room
\* and every season list whose months are in 1..12 and days in 1..31; it never
\* raises.
C2_NeverRaises == IsPriceCall => resp.out.tag = "ok"

---------------------------------------------------------------------------
(* C3: additivity *)

\* the results of pricing [check_in, d2) and [d2, check_out), for the split after
\* k nights of the stay priced
FirstPart(k) == compute_price(resp.room, resp.check_in, Night(k + 1))
SecondPart(k) == compute_price(resp.room, Night(k + 1), resp.check_out)

\* every night of the stay costs a whole number of cents
WholeCentNights ==
    \A k \in 1..Len(resp.out.bases) : (resp.out.bases[k] * Multiplier) % 100 = 0

\* C3 as stated: for d1 < d2 < d3 the rounded price of [d1, d3) equals the sum of
\* the rounded prices of [d1, d2) and [d2, d3).
C3_Additive ==
    IsPriceCall =>
        \A k \in 1..(Nights - 1) :
            (resp.out.tag = "ok" /\ FirstPart(k).tag = "ok" /\ SecondPart(k).tag = "ok")
                => resp.out.value = FirstPart(k).value + SecondPart(k).value

\* C3 amended: for d1 < d2 < d3 the call on [d1, d3) raises exactly when one of the
\* calls on [d1, d2) and [d2, d3) raises; when all three return, the price of
\* [d1, d3) differs from the sum of the two parts by at most one cent, and equals
\* it when every night's price (rate * multiplier) is a whole number of cents.
C3_AdditiveUpToRounding ==
    IsPriceCall =>
        \A k \in 1..(Nights - 1) :
            /\ (resp.out.tag = "ok") <=> (FirstPart(k).tag = "ok" /\ SecondPart(k).tag = "ok")
            /\ resp.out.tag = "ok" =>
                   /\ Abs(resp.out.value - (FirstPart(k).value + SecondPart(k).value)) <= 1
                   /\ WholeCentNights =>
                          resp.out.value = FirstPart(k).value + SecondPart(k).value

\* a two-part stay at a positive whole-cent price, and one that rounding makes
\* non-additive, are both priced
C3_Witness ==
    /\ IsPriceCall
    /\ Nights >= 2
    /\ resp.out.tag = "ok"
    /\ resp.out.value > 0
    /\ WholeCentNights
    /\ Multiplier = 14
    /\ resp.out.value = FirstPart(1).value + SecondPart(1).value

---------------------------------------------------------------------------
(* C4: first match *)

\* C4: when a rate is used for a day that two or more seasons of the list contain,
\* it is the rate of the first of them in list order: season_for_day returns that
\* season, and compute_price charges its rate for that night.
C4_FirstMatch ==
    /\ (IsSeasonCall /\ Returned /\ Cardinality(Covering(resp.d)) >= 2)
           => (resp.out.tag = "season" /\ resp.out.s = season[Min(Covering(resp.d))])
    /\ (IsPriceCall /\ Returned)
           => \A k \in 1..Len(resp.out.bases) :
                  Cardinality(Covering(Night(k))) >= 2
                      => resp.out.bases[k] = Get(season[Min(Covering(Night(k)))], "rate", 0)

\* a night contained in two seasons with different rates, the cheaper one first
C4_Witness ==
    /\ IsPriceCall
    /\ Returned
    /\ \E k \in 1..Len(resp.out.bases) :
           /\ Cardinality(Covering(Night(k))) >= 2
           /\ \E j \in Covering(Night(k)) : season[j].rate > resp.out.bases[k]

---------------------------------------------------------------------------
(* C6: exclusive check-out *)

\* C6: for check_in < check_out the days iterated are exactly the days d with
\* check_in <= d < check_out, each once and in order (check_out - check_in of
\* them, the k-th being check_in + k - 1), and compute_price prices each of them
\* once: the check-out day is never priced.
C6_ExclusiveCheckout ==
    IsPriceCall =>
        LET days == daterange(resp.check_in, resp.check_out)
        IN  /\ Len(days) = Nights
            /\ \A k \in 1..Len(days) : Ordinal(days[k]) = Ordinal(resp.check_in) + k - 1
            /\ \A k \in 1..Len(days) : days[k] # resp.check_out
            /\ Returned => Len(resp.out.bases) = Nights

\* a one-night stay over the turn of the year, priced for the check-in day only
C6_Witness ==
    /\ IsPriceCall
    /\ Returned
    /\ resp.check_in.month = 12 /\ resp.check_in.day = 31
    /\ resp.check_out = NextDay(resp.check_in)
    /\ Len(resp.out.bases) = 1
    /\ resp.out.value > 0

---------------------------------------------------------------------------
(* C7: multiplier scaling *)

\* price of the same stay for a room of multiplier 1.0
BaseTotal == compute_price([multiplier |-> 10], resp.check_in, resp.check_out)

\* C7 as stated: the price for a room of multiplier m equals
\* round(base_total * m, 2), base_total being the (rounded) price at multiplier 1.0.
C7_Scaling ==
    (IsPriceCall /\ Returned) =>
        resp.out.value = RoundHalfEven(BaseTotal.value * Multiplier, 10)

\* the unrounded sum of the nightly prices is an exact half cent
HalfCentTie == (SumSeq(resp.out.bases) * Multiplier) % 100 = 50

\* C7 amended: when every base rate charged in the range is a whole number of
\* cents (so that base_total is the exact sum of the rates) and the exact total
\* is not a half cent, the price for a room of multiplier m equals
\* round(base_total * m, 2).
C7_ScalingOfWholeCentRates ==
    (IsPriceCall /\ Returned) =>
        (((\A k \in 1..Len(resp.out.bases) : resp.out.bases[k] % 10 = 0) /\ ~HalfCentTie)
            => resp.out.value = RoundHalfEven(BaseTotal.value * Multiplier, 10))

\* a stay at whole-cent rates whose scaled price needs rounding, and is not a tie
C7_Witness ==
    /\ IsPriceCall
    /\ Returned
    /\ \A k \in 1..Len(resp.out.bases) : resp.out.bases[k] % 10 = 0
    /\ ~HalfCentTie
    /\ Multiplier # 10
    /\ (SumSeq(resp.out.bases) * Multiplier) % 100 # 0
    /\ resp.out.value > 0

---------------------------------------------------------------------------
(* C10: the seeded seasons *)

SeededCatalog == season = insert_many(<<>>, SeedSeasons)

InHolidayRange(d) == d.month = 12 /\ d.day >= 20

\* C10: with exactly the seeded seasons in seeded order, every day is matched by
\* Academic Year or Summer, never by Holiday and never by none: no night is priced
\* at base rate 0, and the nights from Dec 20 to Dec 31 are priced at the Academic
\* Year rate 45, not at 50.
C10_SeededSeasons ==
    SeededCatalog =>
        /\ IsSeasonCall =>
               /\ resp.out.tag = "season"
               /\ resp.out.s.name \in {"Academic Year", "Summer"}
               /\ InHolidayRange(resp.d) => resp.out.s.rate = 45000
        /\ IsPriceCall =>
               /\ resp.out.tag = "ok"
               /\ \A k \in 1..Len(resp.out.bases) :
                      /\ resp.out.bases[k] \in {45000, 35000}
                      /\ InHolidayRange(Night(k)) => resp.out.bases[k] = 45000

\* a stay of Holiday-range nights priced with the seeded seasons
C10_Witness ==
    /\ SeededCatalog
    /\ IsPriceCall
    /\ resp.out.tag = "ok"
    /\ Len(resp.out.bases) >= 2
    /\ \A k \in 1..Len(resp.out.bases) : InHolidayRange(Night(k))
    /\ resp.out.value = Len(resp.out.bases) * 4500

---------------------------------------------------------------------------
(* C5: validation before pricing *)

IsRequest(r) == r.op \in {"quote", "book"}

\* the request names no room, or dates that parse but are not in order (equal
\* dates included), or a guest count outside [1, capacity of its room]
Invalid(p) ==
    \/ \A i \in 1..Len(room) : room[i]._id # p.room_id
    \/ /\ ValidDate(p.check_in.y, p.check_in.m, p.check_in.d)
       /\ ValidDate(p.check_out.y, p.check_out.m, p.check_out.d)
       /\ Ordinal(date(p.check_out.y, p.check_out.m, p.check_out.d))
              <= Ordinal(date(p.check_in.y, p.check_in.m, p.check_in.d))
    \/ \E i \in 1..Len(room) :
           /\ room[i]._id = p.room_id
           /\ (p.guests < 1 \/ p.guests > Get(room[i], "capacity", 1))

\* C5: a /quote or /book request with an unknown room, a check_out not after its
\* check_in, or a guest count outside [1, capacity] ends in an error, without
\* compute_price being called and without a booking being inserted.
C5_ValidationShortCircuits ==
    [][(IsRequest(resp') /\ Invalid(resp'.payload))
           => (resp'.out.status # 200 /\ ~resp'.out.priced /\ booking' = booking)]_vars

\* a zero-night booking request for a known room and a valid guest count,
\* rejected after another booking was accepted
C5_Witness ==
    /\ resp.op = "book"
    /\ resp.payload.check_in = resp.payload.check_out
    /\ resp.payload.guests = 1
    /\ resp.out.status = 400
    /\ ~resp.out.priced
    /\ Len(booking) >= 1

---------------------------------------------------------------------------
(* C8: booking invariant *)

\* C8: every stored booking has total_price >= 0 and a check_out strictly after
\* its check_in.
C8_BookingInvariant ==
    \A i \in 1..Len(booking) :
        LET b == booking[i]
        IN  /\ b.total_price >= 0
            /\ ValidDate(b.check_in.y, b.check_in.m, b.check_in.d)
            /\ ValidDate(b.check_out.y, b.check_out.m, b.check_out.d)
            /\ Ordinal(date(b.check_out.y, b.check_out.m, b.check_out.d))
                   > Ordinal(date(b.check_in.y, b.check_in.m, b.check_in.d))

\* two bookings stored, the last request being a rejected booking
C8_Witness ==
    /\ Len(booking) >= 2
    /\ resp.op = "book"
    /\ resp.out.status # 200
    /\ \A i \in 1..Len(booking) : booking[i].total_price > 0

---------------------------------------------------------------------------
(* C9: frame *)

\* C9: /quote, /rooms, /seasons and /bookings change no collection; /book leaves
\* season and room unchanged and, when accepted, appends exactly one booking
\* (otherwise none); no step changes or removes a stored booking.
C9_Frame ==
    [][/\ resp'.op \in {"quote", "rooms", "seasons", "bookings"}
           => (season' = season /\ room' = room /\ booking' = booking)
       /\ resp'.op = "book"
           => /\ season' = season /\ room' = room
              /\ Len(booking') = Len(booking) + (IF resp'.out.status = 200 THEN 1 ELSE 0)
       /\ Len(booking') >= Len(booking)
       /\ \A i \in 1..Len(booking) : booking'[i] = booking[i]]_vars

\* a booking accepted and appended after an earlier one
C9_Witness ==
    /\ resp.op = "book"
    /\ resp.out.status = 200
    /\ Len(booking) >= 2
    /\ booking[Len(booking)].total_price = resp.out.total_price
    /\ booking[Len(booking)].created_at > booking[1].created_at

=============================================================================
